---- MODULE Spec2Model ----
(***************************************************************************)
(* Model of the SRX mockup generator: the asset locator, the mask          *)
(* preparation, the Fit-and-Center placement and the compositor of         *)
(* src/mockup_library.py, the command line of src/main.py and the mockup   *)
(* lookup of src/api_server.py.                                            *)
(*                                                                         *)
(* Python's float is an IEEE-754 binary64.  The ratios and the zoomed      *)
(* sizes of _generate_core are computed in that arithmetic, so it is       *)
(* modelled bit for bit: a positive double is a 53-bit mantissa m and an   *)
(* exponent e with value m * 2^e, every operation rounds to nearest, ties  *)
(* to even.  Mantissas do not fit TLC's 32-bit integers and are kept as    *)
(* little-endian sequences of 15-bit limbs.                                *)
(***************************************************************************)
EXTENDS Integers, Sequences, FiniteSets, TLC

----------------------------------------------------------------------------
(* Natural numbers of arbitrary size: <<>> is 0, limb 1 is the least       *)
(* significant, the last limb is never 0.                                  *)

LimbBits == 15

Base == 2^LimbBits

RECURSIVE Pow2(_)
Pow2(n) == IF n = 0 THEN 1 ELSE 2 * Pow2(n - 1)

RECURSIVE BigFromInt(_)
BigFromInt(n) == IF n = 0 THEN <<>> ELSE <<n % Base>> \o BigFromInt(n \div Base)

RECURSIVE BigToInt(_)
BigToInt(a) == IF a = <<>> THEN 0 ELSE a[1] + Base * BigToInt(Tail(a))

RECURSIVE BigNorm(_)
BigNorm(a) ==
    IF a = <<>> THEN a
    ELSE IF a[Len(a)] = 0 THEN BigNorm(SubSeq(a, 1, Len(a) - 1)) ELSE a

Limb(a, i) == IF i <= Len(a) THEN a[i] ELSE 0

RECURSIVE BigAddFrom(_, _, _, _)
BigAddFrom(a, b, i, c) ==
    IF i > Len(a) /\ i > Len(b)
    THEN (IF c = 0 THEN <<>> ELSE <<c>>)
    ELSE LET s == Limb(a, i) + Limb(b, i) + c
         IN  <<s % Base>> \o BigAddFrom(a, b, i + 1, s \div Base)

BigAdd(a, b) == BigAddFrom(a, b, 1, 0)

RECURSIVE BigSubFrom(_, _, _, _)
BigSubFrom(a, b, i, c) ==
    IF i > Len(a) THEN <<>>
    ELSE LET d == a[i] - Limb(b, i) - c
         IN  IF d < 0 THEN <<d + Base>> \o BigSubFrom(a, b, i + 1, 1)
             ELSE <<d>> \o BigSubFrom(a, b, i + 1, 0)

\* a - b, for a >= b
BigSub(a, b) == BigNorm(BigSubFrom(a, b, 1, 0))

RECURSIVE BigCmpFrom(_, _, _)
BigCmpFrom(a, b, i) ==
    IF i = 0 THEN 0
    ELSE IF a[i] > b[i] THEN 1
    ELSE IF a[i] < b[i] THEN -1
    ELSE BigCmpFrom(a, b, i - 1)

\* -1, 0 or 1 as a < b, a = b or a > b
BigCmp(a, b) ==
    IF Len(a) > Len(b) THEN 1
    ELSE IF Len(a) < Len(b) THEN -1
    ELSE BigCmpFrom(a, b, Len(a))

RECURSIVE BigMulSmallFrom(_, _, _, _)
BigMulSmallFrom(a, n, i, c) ==
    IF i > Len(a) THEN BigFromInt(c)
    ELSE LET p == a[i] * n + c
         IN  <<p % Base>> \o BigMulSmallFrom(a, n, i + 1, p \div Base)

\* a * n, for 0 <= n < Base
BigMulSmall(a, n) == IF n = 0 THEN <<>> ELSE BigMulSmallFrom(a, n, 1, 0)

RECURSIVE BigDivSmallFrom(_, _, _, _)
BigDivSmallFrom(a, n, i, r) ==
    IF i = 0 THEN <<>>
    ELSE LET v == r * Base + a[i]
         IN  BigDivSmallFrom(a, n, i - 1, v % n) \o <<v \div n>>

\* floor(a / n), for 0 < n <= Base
BigDivSmall(a, n) == BigNorm(BigDivSmallFrom(a, n, Len(a), 0))

Zeros(k) == [i \in 1..k |-> 0]

\* a * 2^s
BigShl(a, s) ==
    IF a = <<>> THEN a
    ELSE Zeros(s \div LimbBits) \o BigMulSmall(a, Pow2(s % LimbBits))

\* floor(a / 2^s)
BigShr(a, s) ==
    IF s \div LimbBits >= Len(a) THEN <<>>
    ELSE BigDivSmall(SubSeq(a, s \div LimbBits + 1, Len(a)), Pow2(s % LimbBits))

BigIsOdd(a) == a # <<>> /\ a[1] % 2 = 1

RECURSIVE IntBitLen(_)
IntBitLen(n) == IF n = 0 THEN 0 ELSE 1 + IntBitLen(n \div 2)

BigBitLen(a) == IF a = <<>> THEN 0 ELSE (Len(a) - 1) * LimbBits + IntBitLen(a[Len(a)])

----------------------------------------------------------------------------
(* IEEE-754 binary64.  [sgn, m, e]: sgn is -1, 0 or 1; for sgn # 0 the     *)
(* value is sgn * m * 2^e with 2^52 <= m < 2^53.                           *)

MantBits == 53

FZero == [sgn |-> 0, m |-> <<>>, e |-> 0]

\* q, rounded up when the discarded part is above one half (c > 0) or is one
\* half and q is odd (c = 0): round to nearest, ties to even
RoundUp(q, c) == IF c > 0 \/ (c = 0 /\ BigIsOdd(q)) THEN BigAdd(q, <<1>>) ELSE q

\* [sgn, q, e] for a q of 53 or (after a carry) 54 bits
FPack(sgn, q, e) ==
    IF BigBitLen(q) > MantBits THEN [sgn |-> sgn, m |-> BigShr(q, 1), e |-> e + 1]
    ELSE [sgn |-> sgn, m |-> q, e |-> e]

\* p * 2^e rounded, for a p of more than 53 bits: q is p without its last s bits
FRoundCut(sgn, p, e, s, q) ==
    FPack(sgn, RoundUp(q, BigCmp(BigShl(BigSub(p, BigShl(q, s)), 1), BigShl(<<1>>, s))), e + s)

FRoundBits(sgn, p, e, bits) ==
    IF bits <= MantBits
    THEN [sgn |-> sgn, m |-> BigShl(p, MantBits - bits), e |-> e - (MantBits - bits)]
    ELSE FRoundCut(sgn, p, e, bits - MantBits, BigShr(p, bits - MantBits))

\* The double nearest to sgn * p * 2^e (p > 0), ties to even
FRound(sgn, p, e) == FRoundBits(sgn, p, e, BigBitLen(p))

\* float(n) for an integer n, |n| < 2^31: exact
FFromInt(n) ==
    IF n = 0 THEN FZero
    ELSE FRound(IF n > 0 THEN 1 ELSE -1, BigFromInt(IF n > 0 THEN n ELSE -n), 0)

\* One step of restoring division: the next quotient bit of r / d, appended
\* to q.  st is <<q, r>>, with r < d; r2 is 2 * r.
DivStepOn(st, d, r2) ==
    IF BigCmp(r2, d) >= 0
    THEN <<BigAdd(BigShl(st[1], 1), <<1>>), BigSub(r2, d)>>
    ELSE <<BigShl(st[1], 1), r2>>

DivStep(st, d) == DivStepOn(st, d, BigShl(st[2], 1))

\* k steps.  (The test of st against <<>> makes TLC evaluate each step before
\* the next one instead of building a chain of k suspended steps.)
RECURSIVE DivBits(_, _, _)
DivBits(st, d, k) == IF k = 0 \/ st = <<>> THEN st ELSE DivBits(DivStep(st, d), d, k - 1)

\* The quotient <<q, r>> of k + 1 bits, rounded by its remainder r
FDivRound(sgn, qr, d, e) == FRound(sgn, RoundUp(qr[1], BigCmp(BigShl(qr[2], 1), d)), e)

\* a / b for doubles a # 0 and b # 0, ge telling whether a.m >= b.m: a
\* quotient of exactly 53 bits
FDivFrom(a, b, ge) ==
    IF ge
    THEN FDivRound(a.sgn * b.sgn, DivBits(<<<<1>>, BigSub(a.m, b.m)>>, b.m, MantBits - 1),
                   b.m, a.e - b.e - (MantBits - 1))
    ELSE FDivRound(a.sgn * b.sgn, DivBits(<<<<>>, a.m>>, b.m, MantBits),
                   b.m, a.e - b.e - MantBits)

\* a / b for doubles, b # 0: the correctly rounded quotient
FDiv(a, b) == IF a.sgn = 0 THEN FZero ELSE FDivFrom(a, b, BigCmp(a.m, b.m) >= 0)

\* n * a for an integer 0 <= n < Base and a double a (Python converts n to
\* float, exactly, and multiplies): the correctly rounded product
FMulInt(n, a) ==
    IF n = 0 \/ a.sgn = 0 THEN FZero
    ELSE FRound(a.sgn, BigMulSmall(a.m, n), a.e)

\* a > b for doubles a, b >= 0
FGt(a, b) ==
    IF a.sgn = 0 THEN FALSE
    ELSE IF b.sgn = 0 THEN TRUE
    ELSE a.e > b.e \/ (a.e = b.e /\ BigCmp(a.m, b.m) > 0)

\* a <= 0
FLeZero(a) == a.sgn <= 0

\* int(a) for a double a >= 0 below 2^31: truncation
FInt(a) ==
    IF a.sgn = 0 THEN 0
    ELSE IF a.e >= 0 THEN BigToInt(BigShl(a.m, a.e))
    ELSE BigToInt(BigShr(a.m, -a.e))

\* The quotient q of n by b, with a last bit that records a non-zero remainder
StickyQuotient(n, b, q) ==
    BigAdd(BigShl(q, 1), IF BigMulSmall(q, b) = n THEN <<>> ELSE <<1>>)

IntTrueDivOf(n, b) == FRound(1, StickyQuotient(n, b, BigDivSmall(n, b)), -69)

\* a / b for integers 0 <= a, 0 < b, both below Base (Python's true division
\* of two ints): the correctly rounded quotient.  The quotient of a * 2^68 by
\* b has at least 54 bits; its sticky last bit makes the rounding that of the
\* exact quotient.
IntTrueDiv(a, b) ==
    IF a = 0 THEN FZero ELSE IntTrueDivOf(BigShl(BigFromInt(a), 68), b)

FOne == FFromInt(1)

FNeg(a) == [a EXCEPT !.sgn = -@]

\* The double a Python literal or float(str) yields for the decimal
\* num/den (num, den below Base): the correctly rounded quotient
FDecimal(num, den) == IntTrueDiv(num, den)

----------------------------------------------------------------------------
(* Strings are sequences of one-character strings, so that names can be    *)
(* concatenated, sliced and compared as the code does.                     *)

ExtJpg  == <<".", "j", "p", "g">>
ExtPng  == <<".", "p", "n", "g">>
ExtJpeg == <<".", "j", "p", "e", "g">>
ExtWebp == <<".", "w", "e", "b", "p">>

\* common_exts of _generate_core
CommonExts == <<ExtJpg, ExtPng, ExtJpeg, ExtWebp>>

\* MaskExts with .webp, as in CommonExts
MaskExtsWithWebp == <<ExtPng, ExtJpg, ExtJpeg, ExtWebp>>

\* the extension list of the mask lookup
MaskExts == <<ExtPng, ExtJpg, ExtJpeg>>

MaskSuffix == <<"_", "m", "a", "s", "k">>

\* No path, no image: Python's None
None == <<>>

\* os.path.exists(os.path.join(directory, filename)) in the asset store fsys
Exists(fsys, directory, filename) == filename \in DOMAIN fsys[directory]

\* MockupGenerator.find_file: the first extension, in list order, whose file
\* exists; a path is <<directory, filename>>
RECURSIVE FindFileFrom(_, _, _, _, _)
FindFileFrom(fsys, directory, ref_code, extensions, i) ==
    IF i > Len(extensions) THEN None
    ELSE IF Exists(fsys, directory, ref_code \o extensions[i])
         THEN <<directory, ref_code \o extensions[i]>>
         ELSE FindFileFrom(fsys, directory, ref_code, extensions, i + 1)

FindFile(fsys, directory, ref_code, extensions) ==
    FindFileFrom(fsys, directory, ref_code, extensions, 1)

----------------------------------------------------------------------------
(* Images.  A file of the asset store is [ok, w, h, px]: ok says whether   *)
(* Image.open can decode it, px maps <<x, y>> to the intensity the pixel   *)
(* has after convert("L") (used for masks only).                           *)

Pixels(w, h) == (0 .. w - 1) \X (0 .. h - 1)

FileAt(fsys, path) == fsys[path[1]][path[2]]

\* the lambda of the mask's point(): 255 if x > 10 else 0
MaskCutoff == 10

\* PointLut with the cutoff itself counted as white
PointLutInclusive(x) == IF x >= MaskCutoff THEN 255 ELSE 0

PointLut(x) == IF x > MaskCutoff THEN 255 ELSE 0

\* convert('L') of a mode '1' image: non-zero is 255
BitToL(v) == IF v # 0 THEN 255 ELSE 0

\* mask_img_raw.point(lambda ..., mode='1').convert('L')
Threshold(img) ==
    [w |-> img.w, h |-> img.h, px |-> [p \in Pixels(img.w, img.h) |-> BitToL(PointLut(img.px[p]))]]

\* One pass of Image.resize(..., LANCZOS) on an 8-bit channel along x.  The
\* pass is skipped when the width is unchanged.  From one column every output
\* pixel has the single tap of weight 1; from two columns to one the two taps
\* have weight 1/2 each (the filter is even), and the 22-bit fixed-point sum
\* (a * 2^21 + b * 2^21 + 2^21) >> 22 is (a + b + 1) >> 1.
ResampleHorizontal(img, w) ==
    IF img.w = w THEN img
    ELSE IF img.w = 1
    THEN [w |-> w, h |-> img.h, px |-> [p \in Pixels(w, img.h) |-> img.px[<<0, p[2]>>]]]
    ELSE [w |-> w, h |-> img.h,
          px |-> [p \in Pixels(w, img.h) |->
                    (img.px[<<0, p[2]>>] + img.px[<<1, p[2]>>] + 1) \div 2]]

\* The same along y.
ResampleVertical(img, h) ==
    IF img.h = h THEN img
    ELSE IF img.h = 1
    THEN [w |-> img.w, h |-> h, px |-> [p \in Pixels(img.w, h) |-> img.px[<<p[1], 0>>]]]
    ELSE [w |-> img.w, h |-> h,
          px |-> [p \in Pixels(img.w, h) |->
                    (img.px[<<p[1], 0>>] + img.px[<<p[1], 1>>] + 1) \div 2]]

\* mask_img.resize(mockup_img.size, LANCZOS): the horizontal pass, then the
\* vertical one
ResizeMask(img, w, h) == ResampleVertical(ResampleHorizontal(img, w), h)

\* FitMask without the resize
FitMaskUnresized(mask_img, w, h) == mask_img

\* if mockup_img.size != mask_img.size: mask_img = mask_img.resize(...)
FitMask(mask_img, w, h) ==
    IF <<w, h>> # <<mask_img.w, mask_img.h>> THEN ResizeMask(mask_img, w, h) ELSE mask_img

\* A pixel of the fabric layer: <<i, j>> is the pixel (i, j) of the resized
\* fabric, Transparent the pixel Image.new("RGBA", size) fills the layer with.
Transparent == <<-1, -1>>

NewLayer(w, h) == [w |-> w, h |-> h, px |-> [p \in Pixels(w, h) |-> Transparent]]

\* Paste that copies the source from its own corner whatever the offsets
PasteUncropped(layer, sw, sh, x, y) ==
    [layer EXCEPT !.px =
        [p \in Pixels(layer.w, layer.h) |->
            IF /\ p[1] >= x /\ p[1] < x + sw /\ p[2] >= y /\ p[2] < y + sh
            THEN <<p[1] - (IF x < 0 THEN 0 ELSE x), p[2] - (IF y < 0 THEN 0 ELSE y)>>
            ELSE layer.px[p]]]

\* fabric_layer.paste(resized_fabric_img, (x, y)): the box (x, y, x + sw,
\* y + sh) is clipped to the layer, and the part of the source that falls in
\* it is copied.
Paste(layer, sw, sh, x, y) ==
    LET sx0 == IF x < 0 THEN -x ELSE 0
        sy0 == IF y < 0 THEN -y ELSE 0
        dx0 == IF x < 0 THEN 0 ELSE x
        dy0 == IF y < 0 THEN 0 ELSE y
        xs0 == IF x < 0 THEN sw + x ELSE sw
        ys0 == IF y < 0 THEN sh + y ELSE sh
        xsize == IF dx0 + xs0 > layer.w THEN layer.w - dx0 ELSE xs0
        ysize == IF dy0 + ys0 > layer.h THEN layer.h - dy0 ELSE ys0
    IN  IF xsize <= 0 \/ ysize <= 0 THEN layer
        ELSE [layer EXCEPT !.px =
                [p \in Pixels(layer.w, layer.h) |->
                    IF /\ p[1] >= dx0 /\ p[1] < dx0 + xsize
                       /\ p[2] >= dy0 /\ p[2] < dy0 + ysize
                    THEN <<p[1] - dx0 + sx0, p[2] - dy0 + sy0>>
                    ELSE layer.px[p]]]

\* Image.composite(fabric_layer, mockup_img, mask_img): the pixel <<m, f>> is
\* the layer's pixel f over the garment's own pixel with weight m / 255.
Composite(layer, w, h, mask) ==
    [w |-> w, h |-> h, px |-> [p \in Pixels(w, h) |-> <<mask.px[p], layer.px[p]>>]]

----------------------------------------------------------------------------
(* MockupGenerator._generate_core                                          *)

\* Lines 105-112, from the two ratios
FitByRatio(fabric_ratio, mockup_ratio, mockup_width, mockup_height) ==
    IF FGt(fabric_ratio, mockup_ratio)
    THEN <<mockup_width, FInt(FDiv(FFromInt(mockup_width), fabric_ratio))>>
    ELSE <<FInt(FMulInt(mockup_height, fabric_ratio)), mockup_height>>

\* Fit ("contain") size of the fabric in the garment, for non-zero heights
FitSize(fabric_width, fabric_height, mockup_width, mockup_height) ==
    FitByRatio(IntTrueDiv(fabric_width, fabric_height),
               IntTrueDiv(mockup_width, mockup_height), mockup_width, mockup_height)

\* NormalizeScale without the default
NormalizeScaleKept(scaling_factor) == scaling_factor

\* if scaling_factor <= 0: scaling_factor = 1.0
NormalizeScale(scaling_factor) == IF FLeZero(scaling_factor) THEN FOne ELSE scaling_factor

\* int(fit_width * scaling_factor), int(fit_height * scaling_factor)
ScaledSize(fit, scaling_factor) ==
    <<FInt(FMulInt(fit[1], scaling_factor)), FInt(FMulInt(fit[2], scaling_factor))>>

\* ScaledValid that lets an empty size through
ScaledValidNonNegative(scaled) == scaled[1] >= 0 /\ scaled[2] >= 0

\* if scaled_width > 0 and scaled_height > 0
ScaledValid(scaled) == scaled[1] > 0 /\ scaled[2] > 0

\* PasteOffset with a division that rounds toward zero
PasteOffsetTowardZero(mockup_width, mockup_height, scaled) ==
    <<IF mockup_width >= scaled[1] THEN (mockup_width - scaled[1]) \div 2
      ELSE -((scaled[1] - mockup_width) \div 2),
      IF mockup_height >= scaled[2] THEN (mockup_height - scaled[2]) \div 2
      ELSE -((scaled[2] - mockup_height) \div 2)>>

\* paste_x, paste_y: Python's // rounds down, as \div does
PasteOffset(mockup_width, mockup_height, scaled) ==
    <<(mockup_width - scaled[1]) \div 2, (mockup_height - scaled[2]) \div 2>>

NoImage == [w |-> 0, h |-> 0, px |-> <<>>]

\* What a call has done when it returns before anything was found
Blank ==
    [status |-> "none", fabric_path |-> None, mockup_path |-> None, mask_path |-> None,
     fabric_size |-> <<0, 0>>, mockup_size |-> <<0, 0>>, mask_size |-> <<0, 0>>,
     thresholded |-> NoImage, fit |-> <<0, 0>>, scale |-> FZero, scaled |-> <<0, 0>>,
     resized |-> FALSE, layer_created |-> FALSE, layer |-> NoImage, paste |-> <<0, 0>>,
     mask |-> NoImage, composited |-> FALSE, final |-> NoImage]

\* Lines 148-158: the mask is brought to the garment's size and the layer is
\* composited onto the garment
Finish(r, layer, mask) ==
    [r EXCEPT !.status = "ok", !.layer_created = TRUE, !.layer = layer, !.mask = mask,
              !.composited = TRUE,
              !.final = Composite(layer, r.mockup_size[1], r.mockup_size[2], mask)]

\* Lines 135-146: the transparent layer, and the fabric pasted at its centre
Center(r, mask_bw, scaled, paste) ==
    Finish([r EXCEPT !.resized = TRUE, !.paste = paste],
           Paste(NewLayer(r.mockup_size[1], r.mockup_size[2]), scaled[1], scaled[2],
                 paste[1], paste[2]),
           FitMask(mask_bw, r.mockup_size[1], r.mockup_size[2]))

\* Lines 127-133: the fabric is resized, or the call ends
Zoomed(r, mask_bw, scaled) ==
    IF ScaledValid(scaled)
    THEN Center([r EXCEPT !.scaled = scaled], mask_bw, scaled,
                PasteOffset(r.mockup_size[1], r.mockup_size[2], scaled))
    ELSE [r EXCEPT !.status = "invalid_scaled", !.scaled = scaled]

\* Lines 117-125: the zoom
Zoom(r, mask_bw, fit, scale) ==
    Zoomed([r EXCEPT !.fit = fit, !.scale = scale], mask_bw, ScaledSize(fit, scale))

\* Lines 95-158: the files are open and the mask is thresholded
Place(r, mask_bw, scaling_factor) ==
    IF r.mockup_size[2] = 0 \/ r.fabric_size[2] = 0
    THEN [r EXCEPT !.status = "zero_height"]
    ELSE Zoom(r, mask_bw,
              FitSize(r.fabric_size[1], r.fabric_size[2], r.mockup_size[1], r.mockup_size[2]),
              NormalizeScale(scaling_factor))

\* Lines 77-93: the mask
OpenMask(fsys, r, mask_path, scaling_factor) ==
    IF mask_path = None THEN [r EXCEPT !.status = "mask_not_found"]
    ELSE IF ~FileAt(fsys, mask_path).ok
    THEN [r EXCEPT !.status = "unreadable", !.mask_path = mask_path]
    ELSE Place([r EXCEPT !.mask_path = mask_path,
                         !.mask_size = <<FileAt(fsys, mask_path).w, FileAt(fsys, mask_path).h>>,
                         !.thresholded = Threshold(FileAt(fsys, mask_path))],
               Threshold(FileAt(fsys, mask_path)), scaling_factor)

\* Lines 69-75: the garment
OpenMockup(fsys, r, mockup_path, mockup_name, scaling_factor) ==
    IF mockup_path = None THEN [r EXCEPT !.status = "mockup_not_found"]
    ELSE IF ~FileAt(fsys, mockup_path).ok
    THEN [r EXCEPT !.status = "unreadable", !.mockup_path = mockup_path]
    ELSE OpenMask(fsys,
                  [r EXCEPT !.mockup_path = mockup_path,
                            !.mockup_size = <<FileAt(fsys, mockup_path).w,
                                              FileAt(fsys, mockup_path).h>>],
                  FindFile(fsys, "mask_dir", mockup_name \o MaskSuffix, MaskExts),
                  scaling_factor)

\* Lines 61-67: the fabric
OpenFabric(fsys, fabric_path, mockup_name, scaling_factor) ==
    IF fabric_path = None THEN [Blank EXCEPT !.status = "fabric_not_found"]
    ELSE IF ~FileAt(fsys, fabric_path).ok
    THEN [Blank EXCEPT !.status = "unreadable", !.fabric_path = fabric_path]
    ELSE OpenMockup(fsys,
                    [Blank EXCEPT !.fabric_path = fabric_path,
                                  !.fabric_size = <<FileAt(fsys, fabric_path).w,
                                                    FileAt(fsys, fabric_path).h>>],
                    FindFile(fsys, "mockup_dir", mockup_name, CommonExts),
                    mockup_name, scaling_factor)

\* _generate_core: find and open the fabric, the garment and the mask, in
\* this order (the first file that is missing or cannot be decoded ends the
\* call), then place the fabric and composite
GenerateCore(fsys, fabric_ref, mockup_name, scaling_factor) ==
    OpenFabric(fsys, FindFile(fsys, "fabric_dir", fabric_ref, CommonExts),
               mockup_name, scaling_factor)

----------------------------------------------------------------------------
(* Output sink and callers                                                 *)

\* "SRX Mockup_"
MockupPrefix == <<"S", "R", "X", " ", "M", "o", "c", "k", "u", "p", "_">>

\* "SRX Techpack_"
TechpackPrefix == <<"S", "R", "X", " ", "T", "e", "c", "h", "p", "a", "c", "k", "_">>

ExtPdf == <<".", "p", "d", "f">>

\* f"SRX Mockup_{mockup_name}_{fabric_ref}.png"
OutputFilename(mockup_name, fabric_ref) ==
    MockupPrefix \o mockup_name \o <<"_">> \o fabric_ref \o ExtPng

\* final_img.save(output_path).  io is what the file system does: "ok"; "error"
\* (the file cannot be opened, or a file created by a failed save is removed
\* again); "partial" (a failed save leaves the truncated file behind).  A file
\* of the output directory records the call that wrote it.
Save(out, output_filename, mockup_name, fabric_ref, size, io) ==
    IF io = "error" THEN out
    ELSE (output_filename :> [mockup_name |-> mockup_name, fabric_ref |-> fabric_ref,
                              size |-> size, complete |-> io = "ok"]) @@ out

\* The state of a caller between two calls, and the record of a call: the
\* operation, its arguments, what _generate_core did (core), what the call
\* returned (ret: a path, or None; image: whether an image object came back),
\* and for a lookup the entries found.
Idle ==
    [op |-> "none", fabric_ref |-> <<>>, mockup_name |-> <<>>, scaling_factor |-> FZero,
     mode |-> "none", scale_input |-> <<>>, called |-> FALSE, core |-> Blank,
     ret |-> None, image |-> FALSE, found |-> {}]

CallRecord(op, fabric_ref, mockup_name, scaling_factor, core) ==
    [Idle EXCEPT !.op = op, !.fabric_ref = fabric_ref, !.mockup_name = mockup_name,
                 !.scaling_factor = scaling_factor, !.called = TRUE, !.core = core]

\* SaveResult that saves before it looks at what the core returned
SaveResultAlways(out, rec, io) ==
    <<Save(out, OutputFilename(rec.mockup_name, rec.fabric_ref), rec.mockup_name,
           rec.fabric_ref, rec.core.mockup_size, io),
      [rec EXCEPT !.ret = IF io = "ok" /\ rec.core.status = "ok"
                          THEN <<"output_dir", OutputFilename(rec.mockup_name, rec.fabric_ref)>>
                          ELSE None]>>

\* Lines 165-176 of create_mockup: <<the output directory, the record>>
SaveResult(out, rec, io) ==
    IF rec.core.status # "ok" THEN <<out, rec>>
    ELSE <<Save(out, OutputFilename(rec.mockup_name, rec.fabric_ref), rec.mockup_name,
                rec.fabric_ref, rec.core.mockup_size, io),
           [rec EXCEPT !.ret = IF io = "ok"
                               THEN <<"output_dir",
                                      OutputFilename(rec.mockup_name, rec.fabric_ref)>>
                               ELSE None]>>

\* MockupGenerator.create_mockup: <<the output directory, the record>>
CreateMockupResult(fsys, out, fabric_ref, mockup_name, scaling_factor, io) ==
    SaveResult(out,
               CallRecord("create_mockup", fabric_ref, mockup_name, scaling_factor,
                          GenerateCore(fsys, fabric_ref, mockup_name, scaling_factor)),
               io)

\* str.strip() for blanks
RECURSIVE LStrip(_)
LStrip(str) == IF str # <<>> /\ str[1] = " " THEN LStrip(Tail(str)) ELSE str

RECURSIVE RStrip(_)
RStrip(str) ==
    IF str # <<>> /\ str[Len(str)] = " " THEN RStrip(SubSeq(str, 1, Len(str) - 1)) ELSE str

Strip(str) == RStrip(LStrip(str))

Digits == <<"0", "1", "2", "3", "4", "5", "6", "7", "8", "9">>

IsDigit(c) == \E d \in 1..10 : Digits[d] = c

DigitVal(c) == (CHOOSE d \in 1..10 : Digits[d] = c) - 1

\* The digits and the point of a decimal, from position i: [ok, num, den, n],
\* n the number of digits, dot whether the point was passed.
RECURSIVE ParseDecimal(_, _, _, _)
ParseDecimal(str, i, acc, dot) ==
    IF i > Len(str) THEN acc
    ELSE IF IsDigit(str[i])
    THEN ParseDecimal(str, i + 1,
                      [acc EXCEPT !.num = 10 * @ + DigitVal(str[i]),
                                  !.den = IF dot THEN 10 * @ ELSE @,
                                  !.n = @ + 1], dot)
    ELSE IF str[i] = "." /\ ~dot THEN ParseDecimal(str, i + 1, acc, TRUE)
    ELSE [acc EXCEPT !.ok = FALSE]

ParsedValue(neg, body) ==
    IF body.ok /\ body.n > 0
    THEN [ok |-> TRUE, value |-> IF neg THEN FNeg(FDecimal(body.num, body.den))
                                 ELSE FDecimal(body.num, body.den)]
    ELSE [ok |-> FALSE, value |-> FZero]

ParseSigned(str, neg) ==
    ParsedValue(neg, ParseDecimal(str, IF neg THEN 2 ELSE 1,
                                  [ok |-> TRUE, num |-> 0, den |-> 1, n |-> 0], FALSE))

\* float(str) for the strings [-]digits[.digits] (with at least one digit);
\* any other string of the model's inputs raises ValueError (ok = FALSE)
ParseFloat(str) == ParseSigned(str, str # <<>> /\ str[1] = "-")

\* Lines 18-27 of main, for the stripped line and what float() makes of it
CliScaleOf(scale_input, parsed) ==
    IF scale_input = <<>> THEN FOne
    ELSE IF ~parsed.ok THEN FOne
    ELSE IF FLeZero(parsed.value) THEN FOne
    ELSE parsed.value

\* main, lines 16-27: the scale the command line passes on
CliScale(scale_line) == CliScaleOf(Strip(scale_line), ParseFloat(Strip(scale_line)))

\* Lines 30-38 of main: <<the output directory, the record>>
MainResult(fsys, out, fabric_ref, mockup_name, scale_line, io) ==
    IF fabric_ref = <<>> \/ mockup_name = <<>>
    THEN <<out, [Idle EXCEPT !.op = "main", !.fabric_ref = fabric_ref,
                             !.mockup_name = mockup_name]>>
    ELSE CreateMockupResult(fsys, out, fabric_ref, mockup_name, CliScale(scale_line), io)

StartsWith(str, prefix) ==
    Len(str) >= Len(prefix) /\ SubSeq(str, 1, Len(prefix)) = prefix

EndsWith(str, suffix) ==
    Len(str) >= Len(suffix) /\ SubSeq(str, Len(str) - Len(suffix) + 1, Len(str)) = suffix

\* glob of "SRX Mockup_*_<ref_code>.png": the star stands for any characters
GlobMatch(filename, prefix, suffix) ==
    /\ Len(filename) >= Len(prefix) + Len(suffix)
    /\ StartsWith(filename, prefix)
    /\ EndsWith(filename, suffix)

CatMen   == <<"m", "e", "n">>
CatWomen == <<"w", "o", "m", "e", "n">>
CatKids  == <<"k", "i", "d", "s">>

\* the category of a garment name, "skip" when it has none
Category(mockup_name) ==
    IF StartsWith(mockup_name, CatMen) THEN "men"
    ELSE IF StartsWith(mockup_name, CatWomen) THEN "women"
    ELSE IF StartsWith(mockup_name, CatKids) THEN "kids"
    ELSE "skip"

Lower == <<"a", "b", "d", "e", "i", "k", "m", "n", "o", "s", "w">>
Upper == <<"A", "B", "D", "E", "I", "K", "M", "N", "O", "S", "W">>

IsLetter(c) == \E k \in 1..Len(Lower) : Lower[k] = c

UpperOf(c) == Upper[CHOOSE k \in 1..Len(Lower) : Lower[k] = c]

\* str.title() of a string in lower case
Title(str) ==
    [k \in 1..Len(str) |->
        IF IsLetter(str[k]) /\ (k = 1 \/ ~IsLetter(str[k - 1])) THEN UpperOf(str[k])
        ELSE str[k]]

\* mockup_name.replace('_', ' ').title()
DisplayName(mockup_name) ==
    Title([k \in 1..Len(mockup_name) |->
             IF mockup_name[k] = "_" THEN " " ELSE mockup_name[k]])

\* mockup_filename[len(prefix):-len(suffix)]
Between(filename, prefix, suffix) ==
    SubSeq(filename, Len(prefix) + 1, Len(filename) - Len(suffix))

\* f"SRX Techpack_{mockup_name}_{ref_code}.pdf"
TechpackFilename(mockup_name, ref_code) ==
    TechpackPrefix \o mockup_name \o <<"_">> \o ref_code \o ExtPdf

\* Lines 129-139: the entry of a mockup file
MockupEntry(fsys, mockup_filename, mockup_name, ref_code) ==
    [category |-> Category(mockup_name), mockup_name |-> mockup_name,
     garmentName |-> DisplayName(mockup_name), mockup_filename |-> mockup_filename,
     techpack |-> IF Exists(fsys, "techpack_dir", TechpackFilename(mockup_name, ref_code))
                  THEN TechpackFilename(mockup_name, ref_code) ELSE None]

\* Lines 102-127: the files the loop keeps
MockupMatches(out, prefix, suffix) ==
    {f \in DOMAIN out :
        /\ GlobMatch(f, prefix, suffix)
        /\ StartsWith(f, prefix) /\ EndsWith(f, suffix)
        /\ Category(Between(f, prefix, suffix)) # "skip"}

FindAllWith(fsys, out, ref_code, prefix, suffix) ==
    {MockupEntry(fsys, f, Between(f, prefix, suffix), ref_code) :
        f \in MockupMatches(out, prefix, suffix)}

\* find_all_mockups_by_ref: the entries, each with its category
FindAllMockups(fsys, out, ref_code) ==
    FindAllWith(fsys, out, ref_code, MockupPrefix, <<"_">> \o ref_code \o ExtPng)

----------------------------------------------------------------------------
(* State                                                                   *)

VARIABLES
    fs,      \* the asset store: fabric_dir, mockup_dir, mask_dir, techpack_dir
    outdir,  \* the output directory: file name -> the mockup written there
    res      \* the record of the call that has just returned (Idle: none)

vars == <<fs, outdir, res>>

Men   == <<"m", "e", "n">>
MenA  == <<"m", "e", "n", "_", "a">>
RefB  == <<"b">>
RefAB == <<"a", "_", "b">>

Garments == {Men, MenA}

Refs == {RefB, RefAB}

\* The placement a caller wants.  No operation of MockupGenerator has a
\* parameter for it: the record of a call only remembers the wish.
Modes == {"fit_center", "scale_tile"}

IoOutcomes == {"ok", "error", "partial"}

Image(w, h, v) == [ok |-> TRUE, w |-> w, h |-> h, px |-> [p \in Pixels(w, h) |-> v]]

Corrupt == [ok |-> FALSE, w |-> 0, h |-> 0, px |-> <<>>]

Files(base, exts, img) == [f \in {base \o e : e \in exts} |-> img]

Store(fabrics, garments, masks, techpacks) ==
    [fabric_dir |-> fabrics, mockup_dir |-> garments, mask_dir |-> masks,
     techpack_dir |-> techpacks]

----------------------------------------------------------------------------
(* Operations.  A caller makes one call at a time.                         *)

\* MockupGenerator.generate_mockup_image_object
GenerateMockupImageObject(fabric_ref, mockup_name, scaling_factor, mode) ==
    /\ res.op = "none"
    /\ \E core \in {GenerateCore(fs, fabric_ref, mockup_name, scaling_factor)} :
          res' = [CallRecord("generate_mockup_image_object", fabric_ref, mockup_name,
                             scaling_factor, core)
                    EXCEPT !.mode = mode, !.image = (core.status = "ok")]
    /\ UNCHANGED <<fs, outdir>>

\* MockupGenerator.create_mockup
CreateMockup(fabric_ref, mockup_name, scaling_factor, mode, io) ==
    /\ res.op = "none"
    /\ \E r \in {CreateMockupResult(fs, outdir, fabric_ref, mockup_name,
                                    scaling_factor, io)} :
          /\ outdir' = r[1]
          /\ res' = [r[2] EXCEPT !.mode = mode]
    /\ UNCHANGED fs

\* main: the three lines read from the terminal
Main(fabric_line, mockup_line, scale_line, io) ==
    /\ res.op = "none"
    /\ \E r \in {MainResult(fs, outdir, Strip(fabric_line), Strip(mockup_line),
                            scale_line, io)} :
          /\ outdir' = r[1]
          /\ res' = [r[2] EXCEPT !.op = "main", !.scale_input = scale_line]
    /\ UNCHANGED fs

\* find_all_mockups_by_ref
FindAllMockupsByRef(ref_code) ==
    /\ res.op = "none"
    /\ res' = [Idle EXCEPT !.op = "find_all_mockups_by_ref", !.fabric_ref = ref_code,
                           !.found = FindAllMockups(fs, outdir, ref_code)]
    /\ UNCHANGED <<fs, outdir>>

\* The caller takes the result; the next call can start.
Return ==
    /\ res.op # "none"
    /\ res' = Idle
    /\ UNCHANGED <<fs, outdir>>

\* literals a caller passes as scale: -1, 0.0001, 0.5, 1.5, 2.5
ScaleMinusOne == FNeg(FDecimal(1, 1))
ScaleTiny     == FDecimal(1, 10000)
ScaleHalf     == FDecimal(1, 2)
ScaleOneHalf  == FDecimal(3, 2)
ScaleTwoHalf  == FDecimal(5, 2)

----------------------------------------------------------------------------
(* The whole program, over small asset stores                              *)

AssetKinds == {"ok", "missing", "corrupt", "flat", "thin"}

FabricFile(kind) ==
    IF kind = "ok" THEN Image(2, 2, 0)
    ELSE IF kind = "flat" THEN Image(2, 0, 0)
    ELSE IF kind = "thin" THEN Image(1, 3, 0)
    ELSE Corrupt

GarmentFile(kind) ==
    IF kind = "corrupt" THEN Corrupt
    ELSE IF kind = "flat" THEN Image(2, 0, 0)
    ELSE Image(2, 2, 0)

MaskKinds == {"ok", "missing", "corrupt", "webp", "men_only"}

MaskFile(kind) == IF kind = "corrupt" THEN Corrupt ELSE Image(2, 2, 255)

MaskFileExts(kind) == IF kind = "webp" THEN {ExtWebp} ELSE {ExtJpg}

\* Every fabric of Refs is of kind fk, every garment of kind gk ("thin" is
\* for fabrics only) and every mask of kind mk ("webp": the mask exists as
\* .webp only; "men_only": men has a mask, men_a has none); the techpack of
\* (men, b) exists when tk.
SmallStore(fk, gk, mk, tk) ==
    Store(IF fk = "missing" THEN <<>>
          ELSE Files(RefB, {ExtJpg}, FabricFile(fk))
                 @@ Files(RefAB, {ExtPng, ExtWebp}, FabricFile(fk)),
          IF gk = "missing" THEN <<>>
          ELSE Files(Men, {ExtPng}, GarmentFile(gk))
                 @@ Files(MenA, {ExtJpeg}, GarmentFile(gk)),
          IF mk = "missing" THEN <<>>
          ELSE Files(Men \o MaskSuffix, MaskFileExts(mk), MaskFile(mk))
                 @@ (IF mk = "men_only" THEN <<>>
                     ELSE Files(MenA \o MaskSuffix, MaskFileExts(mk), MaskFile(mk))),
          IF tk THEN Files(TechpackFilename(Men, RefB), {<<>>}, Corrupt) ELSE <<>>)

SmallStores ==
    {SmallStore(fk, gk, mk, tk) :
        fk \in AssetKinds, gk \in AssetKinds \ {"thin"}, mk \in MaskKinds, tk \in BOOLEAN}

SmallScales == {ScaleMinusOne, FZero, ScaleTiny, FOne}

\* lines typed at the prompts of main
FabricLines == {<<>>, <<"b">>, <<" ", "a", "_", "b", " ">>}

MockupLines == {<<>>, <<"m", "e", "n">>, <<"m", "e", "n", "_", "a", " ">>}

ScaleLines ==
    {<<>>, <<" ">>, <<"a", "b", "c">>, <<"1", ".", "5", "x">>, <<"-">>, <<"0">>,
     <<"-", "1">>, <<"-", "0", ".", "5">>, <<"0", ".", "5">>, <<" ", "2", " ">>,
     <<"0", ".", "0", "0", "0", "1">>}

Init ==
    /\ fs \in SmallStores
    /\ outdir = <<>>
    /\ res = Idle

Next ==
    \/ \E fabric_ref \in Refs, mockup_name \in Garments, s \in SmallScales, mode \in Modes :
          GenerateMockupImageObject(fabric_ref, mockup_name, s, mode)
    \/ \E fabric_ref \in Refs, mockup_name \in Garments, s \in SmallScales, mode \in Modes,
          io \in IoOutcomes :
          CreateMockup(fabric_ref, mockup_name, s, mode, io)
    \/ \E fabric_line \in FabricLines, mockup_line \in MockupLines,
          scale_line \in ScaleLines, io \in IoOutcomes :
          Main(fabric_line, mockup_line, scale_line, io)
    \/ \E ref_code \in Refs : FindAllMockupsByRef(ref_code)
    \/ Return

Spec == Init /\ [][Next]_vars

----------------------------------------------------------------------------
(* One fabric (b.jpg), one garment (men.jpg) and its mask (men_mask.png)   *)

OneOfEach(fabric, garment, mask) ==
    Store(Files(RefB, {ExtJpg}, fabric), Files(Men, {ExtJpg}, garment),
          Files(Men \o MaskSuffix, {ExtPng}, mask), <<>>)

\* A white mask of the garment's size (a mask file is never empty)
MaskFor(w, h) == IF w = 0 \/ h = 0 THEN Image(1, 1, 255) ELSE Image(w, h, 255)

\* generate_mockup_image_object, for scales and wishes of the given sets
Generate(scales, modes) ==
    \E fabric_ref \in Refs, mockup_name \in Garments, s \in scales, mode \in modes :
        GenerateMockupImageObject(fabric_ref, mockup_name, s, mode)

(* Fit at scale 1.0: every fabric and garment size up to FitMaxDim.        *)

FitMaxDim == 9

FitStores ==
    {OneOfEach(Image(d[1], d[2], 0), Image(d[3], d[4], 0), MaskFor(d[3], d[4])) :
        d \in (1 .. FitMaxDim) \X (1 .. FitMaxDim) \X (1 .. FitMaxDim) \X (1 .. FitMaxDim)}

InitFit ==
    /\ fs \in FitStores
    /\ outdir = <<>>
    /\ res = Idle

NextFit ==
    \/ Generate({FOne}, {"fit_center"})
    \/ Return

SpecFit == InitFit /\ [][NextFit]_vars

(* Zoom and placement: every size from 0 to MaxDim, every scale.           *)

MaxDim == 4

ZoomStores ==
    {OneOfEach(Image(d[1], d[2], 0), Image(d[3], d[4], 0), MaskFor(d[3], d[4])) :
        d \in (0 .. MaxDim) \X (0 .. MaxDim) \X (0 .. MaxDim) \X (0 .. MaxDim)}

ZoomScales == {ScaleMinusOne, FZero, ScaleTiny, ScaleHalf, FOne, ScaleOneHalf, ScaleTwoHalf}

InitZoom ==
    /\ fs \in ZoomStores
    /\ outdir = <<>>
    /\ res = Idle

NextZoom ==
    \/ Generate(ZoomScales, Modes)
    \/ Return

SpecZoom == InitZoom /\ [][NextZoom]_vars

(* Masks: a garment of up to MaskMaxDim pixels a side; its mask has, on    *)
(* each axis, the garment's extent, or one pixel, or two for an extent of  *)
(* one (the cases ResampleHorizontal and ResampleVertical cover).  A mask  *)
(* of one pixel takes every intensity, a larger one the two intensities at *)
(* the cutoff.                                                             *)

MaskMaxDim == 2

MaskExtents(n) == {n, 1} \cup (IF n = 1 THEN {2} ELSE {})

MaskLevels(w, h) == IF w * h = 1 THEN 0 .. 255 ELSE {MaskCutoff, MaskCutoff + 1}

MaskImages(w, h) ==
    {[ok |-> TRUE, w |-> w, h |-> h, px |-> px] : px \in [Pixels(w, h) -> MaskLevels(w, h)]}

MaskStores ==
    UNION {UNION {{OneOfEach(Image(1, 1, 0), Image(g[1], g[2], 0), m) :
                      m \in MaskImages(ms[1], ms[2])} :
                  ms \in MaskExtents(g[1]) \X MaskExtents(g[2])} :
           g \in (1 .. MaskMaxDim) \X (1 .. MaskMaxDim)}

InitMask ==
    /\ fs \in MaskStores
    /\ outdir = <<>>
    /\ res = Idle

NextMask ==
    \/ Generate({FOne}, {"fit_center"})
    \/ Return

SpecMask == InitMask /\ [][NextMask]_vars

(* Lookup: every set of extensions for the fabric, the garment and the mask *)

AllExts == {ExtJpg, ExtPng, ExtJpeg, ExtWebp}

LocateStores ==
    {Store(Files(RefB, e[1], Image(1, 1, 0)), Files(Men, e[2], Image(1, 1, 0)),
           Files(Men \o MaskSuffix, e[3], Image(1, 1, 255)), <<>>) :
        e \in (SUBSET AllExts) \X (SUBSET AllExts) \X (SUBSET AllExts)}

InitLocate ==
    /\ fs \in LocateStores
    /\ outdir = <<>>
    /\ res = Idle

NextLocate ==
    \/ Generate({FOne}, {"fit_center"})
    \/ Return

SpecLocate == InitLocate /\ [][NextLocate]_vars

----------------------------------------------------------------------------
(* Properties                                                              *)

\* C1: for positive fabric and garment sizes the fit size is the garment's
\* width and floor(W * fh / fw) when fw / fh > W / H, and floor(H * fw / fh)
\* and the garment's height otherwise; so at scale 1.0 the scaled fabric lies
\* inside the garment and touches it on one axis, on exactly one of the two
\* when the ratios differ.
C1_FitIsLargestInside ==
    LET fw == res.core.fabric_size[1]
        fh == res.core.fabric_size[2]
        W  == res.core.mockup_size[1]
        H  == res.core.mockup_size[2]
        sw == res.core.scaled[1]
        sh == res.core.scaled[2]
    IN  (/\ res.called
         /\ res.core.status \in {"ok", "invalid_scaled"}
         /\ res.scaling_factor = FOne
         /\ fw > 0 /\ fh > 0 /\ W > 0 /\ H > 0) =>
            /\ res.core.fit = IF fw * H > W * fh THEN <<W, (W * fh) \div fw>>
                              ELSE <<(H * fw) \div fh, H>>
            /\ sw <= W /\ sh <= H
            /\ sw = W \/ sh = H
            /\ fw * H # W * fh => ~(sw = W /\ sh = H)

\* A 9x7 fabric on a 9x8 garment: the code's fit size is 9x6
C1_Reached ==
    /\ res.called /\ res.core.status = "ok"
    /\ res.core.fabric_size = <<9, 7>> /\ res.core.mockup_size = <<9, 8>>
    /\ res.core.fit = <<9, 6>>

\* C2: whenever the scaled size is positive on both axes the call does not
\* fail, the layer has the garment's size, paste_x = floor((W - scaledW) / 2)
\* and paste_y = floor((H - scaledH) / 2) (rounded down also when negative),
\* and every pixel of the layer is transparent or a pixel of the scaled fabric.
C2_PasteIsFlooredCenter ==
    LET c  == res.core
        W  == res.core.mockup_size[1]
        H  == res.core.mockup_size[2]
        sw == res.core.scaled[1]
        sh == res.core.scaled[2]
    IN  (res.called /\ sw > 0 /\ sh > 0) =>
            /\ c.status = "ok" /\ res.image
            /\ c.layer_created /\ c.layer.w = W /\ c.layer.h = H
            /\ DOMAIN c.layer.px = (0 .. W - 1) \X (0 .. H - 1)
            /\ 2 * c.paste[1] <= W - sw /\ W - sw <= 2 * c.paste[1] + 1
            /\ 2 * c.paste[2] <= H - sh /\ H - sh <= 2 * c.paste[2] + 1
            /\ \A p \in DOMAIN c.layer.px :
                  \/ c.layer.px[p] = <<-1, -1>>
                  \/ c.layer.px[p] \in (0 .. sw - 1) \X (0 .. sh - 1)

\* The zoomed fabric is one pixel higher than the garment: paste_y is -1
C2_Reached ==
    /\ res.called /\ res.core.status = "ok"
    /\ res.core.mockup_size[2] - res.core.scaled[2] = -1
    /\ res.core.paste[2] = -1

\* C3 as stated: the mask handed to Image.composite has the garment's size
\* and every pixel of it is 0 or 255, whatever the size of the mask file.
C3_MaskIsBinary ==
    (res.called /\ res.core.status = "ok") =>
        /\ <<res.core.mask.w, res.core.mask.h>> = res.core.mockup_size
        /\ \A p \in DOMAIN res.core.mask.px : res.core.mask.px[p] \in {0, 255}

\* C3, amended: the mask handed to Image.composite has the garment's size;
\* every pixel is 0 or 255 after thresholding, and in the composited mask when
\* the mask file has the garment's size (the mask is then the thresholded one);
\* a resized mask has intensities of 0 .. 255.
C3_MaskBinaryUnlessResized ==
    (res.called /\ res.core.status = "ok") =>
        /\ <<res.core.mask.w, res.core.mask.h>> = res.core.mockup_size
        /\ DOMAIN res.core.mask.px =
              (0 .. res.core.mockup_size[1] - 1) \X (0 .. res.core.mockup_size[2] - 1)
        /\ \A p \in DOMAIN res.core.thresholded.px : res.core.thresholded.px[p] \in {0, 255}
        /\ res.core.mask_size = res.core.mockup_size =>
              /\ res.core.mask = res.core.thresholded
              /\ \A p \in DOMAIN res.core.mask.px : res.core.mask.px[p] \in {0, 255}
        /\ \A p \in DOMAIN res.core.mask.px : res.core.mask.px[p] \in 0 .. 255

\* A mask wider than the garment is resized, and a pixel of it turns gray
C3_Reached ==
    /\ res.called /\ res.core.status = "ok"
    /\ res.core.mask_size # res.core.mockup_size
    /\ <<res.core.mask.w, res.core.mask.h>> = res.core.mockup_size
    /\ \E p \in DOMAIN res.core.mask.px : res.core.mask.px[p] \notin {0, 255}

\* C4: a pixel of the thresholded mask is 255 if the pixel of the decoded
\* mask is above 10 and 0 otherwise, so every thresholded pixel is 0 or 255.
C4_ThresholdAboveTen ==
    (res.called /\ res.core.mask_path # None /\ res.core.status # "unreadable") =>
        /\ <<res.core.thresholded.w, res.core.thresholded.h>> = res.core.mask_size
        /\ DOMAIN res.core.thresholded.px = DOMAIN fs.mask_dir[res.core.mask_path[2]].px
        /\ \A p \in DOMAIN res.core.thresholded.px :
              /\ res.core.thresholded.px[p] =
                    IF fs.mask_dir[res.core.mask_path[2]].px[p] > 10 THEN 255 ELSE 0
              /\ res.core.thresholded.px[p] \in {0, 255}

\* A mask with the intensities 10 and 11 side by side: 10 gives 0, 11 gives 255
C4_Reached ==
    /\ res.called /\ res.core.status = "ok"
    /\ res.core.mask_size = <<2, 1>>
    /\ fs.mask_dir[res.core.mask_path[2]].px[<<0, 0>>] = 10
    /\ fs.mask_dir[res.core.mask_path[2]].px[<<1, 0>>] = 11
    /\ res.core.thresholded.px[<<0, 0>>] = 0
    /\ res.core.thresholded.px[<<1, 0>>] = 255

\* C5: a call whose core fails leaves the output directory as it was and
\* returns None; the output directory changes only in a call that has
\* composited; no layer exists when a file was not found; and
\* generate_mockup_image_object never changes the output directory.
C5_NoOutputOnFailure ==
    [][/\ res'.core.status # "ok" => outdir' = outdir /\ res'.ret = None /\ ~res'.image
       /\ outdir' # outdir =>
             /\ res'.op \in {"create_mockup", "main"}
             /\ res'.core.status = "ok" /\ res'.core.composited
       /\ res'.core.status \in {"fabric_not_found", "mockup_not_found", "mask_not_found"} =>
             /\ ~res'.core.layer_created /\ res'.core.layer = NoImage
             /\ ~res'.core.resized /\ ~res'.core.composited
       /\ res'.op = "generate_mockup_image_object" => outdir' = outdir]_vars

\* create_mockup for a garment without mask, after a mockup has been written
C5_Reached ==
    /\ res.op = "create_mockup" /\ res.core.status = "mask_not_found"
    /\ res.ret = None /\ ~res.core.layer_created
    /\ outdir # <<>>

\* C6: a call with a scale of -1 or 0 has the outcome of the same call with
\* the scale 1.0 (the scaled size is the fit size), and main passes 1.0 for an
\* empty, unparsable or non-positive scale line and the number typed otherwise.
C6_NonPositiveScaleIsOne ==
    /\ (res.called /\ res.scaling_factor \in {ScaleMinusOne, FZero}) =>
          /\ res.core = GenerateCore(fs, res.fabric_ref, res.mockup_name, FOne)
          /\ res.core.status \in {"ok", "invalid_scaled"} =>
                res.core.scale = FOne /\ res.core.scaled = res.core.fit
    /\ (res.op = "main" /\ res.called) =>
          /\ res.scale_input \in
                {<<>>, <<" ">>, <<"a", "b", "c">>, <<"1", ".", "5", "x">>, <<"-">>, <<"0">>,
                 <<"-", "1">>, <<"-", "0", ".", "5">>} => res.scaling_factor = FOne
          /\ res.scale_input = <<"0", ".", "5">> => res.scaling_factor = ScaleHalf
          /\ res.scale_input = <<" ", "2", " ">> => res.scaling_factor = FFromInt(2)
          /\ res.scale_input = <<"0", ".", "0", "0", "0", "1">> => res.scaling_factor = ScaleTiny

\* A call with scale -1 that succeeds with the fit size
C6_Reached ==
    /\ res.op = "generate_mockup_image_object" /\ res.scaling_factor = ScaleMinusOne
    /\ res.core.status = "ok" /\ res.core.scale = FOne
    /\ res.core.scaled = res.core.fit

\* C7: with the three files decoded and both heights non-zero, the scaled
\* size is floor(fit * scale) for the normalized scale, the call fails if and
\* only if the scaled width or height is not positive, a failed call has not
\* resized, created a layer or composited, and a call that does not fail
\* returns an image of the garment's size.
C7_FailsIffScaledNotPositive ==
    LET c == res.core
        s == res.scaling_factor
        \* the scale as numerator and denominator, after normalization
        q == IF s = ScaleTiny THEN <<1, 10000>>
             ELSE IF s = ScaleHalf THEN <<1, 2>>
             ELSE IF s = ScaleOneHalf THEN <<3, 2>>
             ELSE IF s = ScaleTwoHalf THEN <<5, 2>>
             ELSE <<1, 1>>
    IN  (/\ res.called /\ c.mask_path # None /\ c.status # "unreadable"
         /\ c.fabric_size[2] # 0 /\ c.mockup_size[2] # 0) =>
            /\ c.scaled = <<(c.fit[1] * q[1]) \div q[2], (c.fit[2] * q[1]) \div q[2]>>
            /\ c.status \in {"ok", "invalid_scaled"}
            /\ c.status = "invalid_scaled" <=> (c.scaled[1] <= 0 \/ c.scaled[2] <= 0)
            /\ res.image <=> c.status = "ok"
            /\ c.status = "invalid_scaled" =>
                  /\ ~c.resized /\ ~c.layer_created /\ ~c.composited
                  /\ c.layer = NoImage /\ c.final = NoImage
            /\ c.status = "ok" =>
                  /\ c.resized /\ c.layer_created /\ c.composited
                  /\ <<c.final.w, c.final.h>> = c.mockup_size
                  /\ DOMAIN c.final.px =
                        (0 .. c.mockup_size[1] - 1) \X (0 .. c.mockup_size[2] - 1)

\* Scale 0.0001 with a 1x1 fabric on a 4x3 garment: the scaled size is 0x0
C7_Reached ==
    /\ res.called /\ res.scaling_factor = ScaleTiny
    /\ res.core.fabric_size = <<1, 1>> /\ res.core.mockup_size = <<4, 3>>
    /\ res.core.fit = <<3, 3>> /\ res.core.scaled = <<0, 0>>
    /\ res.core.status = "invalid_scaled" /\ ~res.image

\* C8: each lookup returns the file of the first extension, in list order,
\* that exists, and None exactly when none of the list exists: fabric and
\* garment with .jpg, .png, .jpeg, .webp, the mask with .png, .jpg, .jpeg (so
\* a mask that exists as .webp only is not found).
C8_FirstExistingExtension ==
    LET c == res.core
        Common == <<ExtJpg, ExtPng, ExtJpeg, ExtWebp>>
        Masks == <<ExtPng, ExtJpg, ExtJpeg>>
        IsFirst(path, dir, base, exts) ==
            IF \A i \in 1 .. Len(exts) : (base \o exts[i]) \notin DOMAIN fs[dir]
            THEN path = <<>>
            ELSE \E i \in 1 .. Len(exts) :
                    /\ path = <<dir, base \o exts[i]>>
                    /\ (base \o exts[i]) \in DOMAIN fs[dir]
                    /\ \A j \in 1 .. i - 1 : (base \o exts[j]) \notin DOMAIN fs[dir]
    IN  res.called =>
            /\ IsFirst(c.fabric_path, "fabric_dir", res.fabric_ref, Common)
            /\ c.status = "fabric_not_found" <=> c.fabric_path = <<>>
            /\ c.fabric_path # <<>> =>
                  /\ IsFirst(c.mockup_path, "mockup_dir", res.mockup_name, Common)
                  /\ c.status = "mockup_not_found" <=> c.mockup_path = <<>>
            /\ c.mockup_path # <<>> =>
                  /\ IsFirst(c.mask_path, "mask_dir",
                             res.mockup_name \o <<"_", "m", "a", "s", "k">>, Masks)
                  /\ c.status = "mask_not_found" <=> c.mask_path = <<>>
                  /\ c.status = "ok" <=> c.mask_path # <<>>

\* The fabric exists as .png, .jpeg and .webp and is found as .png; the mask
\* exists as .webp only and is not found
C8_Reached ==
    /\ res.called /\ res.core.status = "mask_not_found"
    /\ DOMAIN fs.fabric_dir = {RefB \o ExtPng, RefB \o ExtJpeg, RefB \o ExtWebp}
    /\ res.core.fabric_path = <<"fabric_dir", RefB \o ExtPng>>
    /\ DOMAIN fs.mask_dir = {Men \o MaskSuffix \o ExtWebp}
    /\ res.core.mask_path = <<>>

C10_NameDeterminesPair ==
    /\ \A f \in DOMAIN outdir : \A g \in Garments, r \in Refs :
          f = MockupPrefix \o g \o <<"_">> \o r \o ExtPng =>
             g = outdir[f].mockup_name /\ r = outdir[f].fabric_ref
    /\ res.op = "find_all_mockups_by_ref" =>
          \A e \in res.found :
             /\ e.mockup_filename \in DOMAIN outdir
             /\ outdir[e.mockup_filename].mockup_name = e.mockup_name
             /\ outdir[e.mockup_filename].fabric_ref = res.fabric_ref

\* The lookup of b returns the garment men_a for the file that
\* create_mockup("a_b", "men") wrote
C10_Reached ==
    /\ res.op = "find_all_mockups_by_ref" /\ res.fabric_ref = RefB
    /\ \E e \in res.found :
          /\ e.mockup_name = MenA
          /\ outdir[e.mockup_filename].mockup_name = Men
          /\ outdir[e.mockup_filename].fabric_ref = RefAB

====
